---------------------------- MODULE Spec2Model ----------------------------
(***************************************************************************)
(* A model of the TRMNL calendar/weather aggregator (src/app).             *)
(*                                                                         *)
(* Strings the program builds (dates, clock times, date ranges) are        *)
(* modelled as sequences of one-character strings, so that they can be     *)
(* compared lexicographically and searched for a separator; Join turns     *)
(* such a sequence into a TLA+ string for comparison with a literal.       *)
(* A datetime is a record [y, m, d, hh, mi] in the display timezone.       *)
(* A Python exception is a distinguished result ([tag |-> "raise"]).       *)
(***************************************************************************)
EXTENDS Integers, Sequences, FiniteSets, TLC

VARIABLES
    \* ---- /api/events request (main.py get_events and what it awaits) ----
    token_store,   \* storage.py: the stored refresh token (NONE when none)
    pc,            \* where the request handler is suspended
    cal_idx,       \* calendar.py get_all_events: index into CALENDAR_IDS
    page_token,    \* calendar.py fetch_calendar_events: page_token
    events,        \* calendar.py fetch_calendar_events: events (this calendar)
    all_events,    \* calendar.py get_all_events: all_events
    weather_data,  \* weather.py get_all_weather: the forecast response body
    air_quality_data, \* weather.py get_all_weather: the air-quality body
    response,      \* the HTTP response of the request (status 0: none yet)
    \* ---- history of the upstream traffic of the request ----
    sent,          \* pageToken parameters sent in the current calendar fetch
    pages,         \* responses received in the current calendar fetch
    fetched,       \* per calendar fetch completed by get_all_events, until it
                   \* has returned: [calendar_id, sent, pages, events]
    token_log,     \* one entry per POST of the request to the token endpoint:
                   \* the status of its reply (0 while awaited)
    \* ---- date formatting applied to one event record ----
    fmt_in,        \* the upstream record
    fmt_out,       \* normalize_event's result for it
    \* ---- weather aggregation applied to one pair of responses ----
    wx_in,         \* [forecast, air, now]
    wx_out,        \* get_all_weather's result for it
    \* ---- OAuth setup (main.py setup_page, oauth_callback, disconnect) ----
    oauth_state,   \* main.py _oauth_state (NONE for None)
    issued,        \* number of state tokens generate_auth_url has produced
    inflight,      \* callbacks awaiting exchange_code_for_tokens:
                   \* [code, state, slot], slot the _oauth_state they passed
    last_cb        \* outcome of the callback that ended last

vars == <<token_store, pc, cal_idx, page_token, events, all_events,
          weather_data, air_quality_data, response, sent, pages, fetched,
          token_log, fmt_in, fmt_out, wx_in, wx_out,
          oauth_state, issued, inflight, last_cb>>

req_vars == <<token_store, pc, cal_idx, page_token, events, all_events,
              weather_data, air_quality_data, response, sent, pages, fetched,
              token_log>>
fmt_vars == <<fmt_in, fmt_out>>
wx_vars == <<wx_in, wx_out>>
oauth_vars == <<oauth_state, issued, inflight, last_cb>>

-----------------------------------------------------------------------------
(* Strings as character sequences *)

\* Python compares str by code point.
Ord(c) ==
    CASE c = " " -> 32 [] c = "-" -> 45
      [] c = "0" -> 48 [] c = "1" -> 49 [] c = "2" -> 50 [] c = "3" -> 51
      [] c = "4" -> 52 [] c = "5" -> 53 [] c = "6" -> 54 [] c = "7" -> 55
      [] c = "8" -> 56 [] c = "9" -> 57 [] c = ":" -> 58
      [] c = "A" -> 65 [] c = "M" -> 77 [] c = "P" -> 80
      [] OTHER -> 97

RECURSIVE StrLess(_, _)
\* s < t for Python str
StrLess(s, t) ==
    IF t = <<>> THEN FALSE
    ELSE IF s = <<>> THEN TRUE
    ELSE IF Ord(Head(s)) < Ord(Head(t)) THEN TRUE
    ELSE IF Ord(Head(s)) > Ord(Head(t)) THEN FALSE
    ELSE StrLess(Tail(s), Tail(t))

StrLeq(s, t) == s = t \/ StrLess(s, t)

RECURSIVE Join(_)
Join(s) == IF s = <<>> THEN "" ELSE Head(s) \o Join(Tail(s))

Contains(s, c) == \E i \in 1..Len(s) : s[i] = c

DigitChar(n) == <<"0","1","2","3","4","5","6","7","8","9">>[n + 1]

RECURSIVE Digits(_)
\* decimal digits of n >= 0, no padding ("%-d", "%-I", str(int))
Digits(n) == IF n < 10 THEN <<DigitChar(n)>>
             ELSE Digits(n \div 10) \o <<DigitChar(n % 10)>>

\* "%m", "%d", "%M": two digits
Pad2(n) == <<DigitChar((n \div 10) % 10), DigitChar(n % 10)>>

\* "%Y": four digits
Pad4(n) == <<DigitChar((n \div 1000) % 10), DigitChar((n \div 100) % 10),
             DigitChar((n \div 10) % 10), DigitChar(n % 10)>>

\* "%b"
MonthAbbr(m) ==
    << <<"J","a","n">>, <<"F","e","b">>, <<"M","a","r">>, <<"A","p","r">>,
       <<"M","a","y">>, <<"J","u","n">>, <<"J","u","l">>, <<"A","u","g">>,
       <<"S","e","p">>, <<"O","c","t">>, <<"N","o","v">>, <<"D","e","c">> >>[m]

\* "%a", weekday() with Monday = 0
DayAbbr(w) ==
    << <<"M","o","n">>, <<"T","u","e">>, <<"W","e","d">>, <<"T","h","u">>,
       <<"F","r","i">>, <<"S","a","t">>, <<"S","u","n">> >>[w + 1]

-----------------------------------------------------------------------------
(* datetime arithmetic (the proleptic Gregorian calendar of datetime) *)

IsLeap(y) == y % 4 = 0 /\ (y % 100 /= 0 \/ y % 400 = 0)

DaysInMonth(y, m) ==
    IF m = 2 THEN (IF IsLeap(y) THEN 29 ELSE 28)
    ELSE IF m \in {4, 6, 9, 11} THEN 30 ELSE 31

DaysBeforeYear(y) ==
    (y - 1) * 365 + ((y - 1) \div 4) - ((y - 1) \div 100) + ((y - 1) \div 400)

RECURSIVE DaysBeforeMonth(_, _)
DaysBeforeMonth(y, m) ==
    IF m = 1 THEN 0 ELSE DaysBeforeMonth(y, m - 1) + DaysInMonth(y, m - 1)

\* date.toordinal()
Ordinal(dt) == DaysBeforeYear(dt.y) + DaysBeforeMonth(dt.y, dt.m) + dt.d

\* date.weekday()
Weekday(dt) == (Ordinal(dt) + 6) % 7

\* dt - timedelta(days=1)
MinusOneDay(dt) ==
    IF dt.d > 1 THEN [dt EXCEPT !.d = dt.d - 1]
    ELSE IF dt.m > 1
         THEN [dt EXCEPT !.m = dt.m - 1, !.d = DaysInMonth(dt.y, dt.m - 1)]
         ELSE [dt EXCEPT !.y = dt.y - 1, !.m = 12, !.d = 31]

\* dt + timedelta(days=1)
PlusOneDay(dt) ==
    IF dt.d < DaysInMonth(dt.y, dt.m) THEN [dt EXCEPT !.d = dt.d + 1]
    ELSE IF dt.m < 12 THEN [dt EXCEPT !.m = dt.m + 1, !.d = 1]
         ELSE [dt EXCEPT !.y = dt.y + 1, !.m = 1, !.d = 1]

\* dt + timedelta(hours=k), -24 <= k <= 24
PlusHours(dt, k) ==
    LET h == dt.hh + k IN
    IF h < 0 THEN [MinusOneDay(dt) EXCEPT !.hh = h + 24]
    ELSE IF h >= 24 THEN [PlusOneDay(dt) EXCEPT !.hh = h - 24]
    ELSE [dt EXCEPT !.hh = h]

\* dt.date()
DateOf(dt) == <<dt.y, dt.m, dt.d>>

-----------------------------------------------------------------------------
(* calendar.py: parsing and formatting of one upstream event record *)

\* TIMEZONE (default "UTC") as hours east of UTC
TIMEZONE_OFFSET == 0

NoneVal == [tag |-> "none"]
Raise == [tag |-> "raise"]

\* An absent key of the start/end object, a well-formed "date" string,
\* a well-formed "dateTime" string with its UTC offset (hours), and a
\* string that neither strptime nor fromisoformat accepts.
Absent == [present |-> FALSE, wf |-> FALSE]
DateStr(y, m, d) == [present |-> TRUE, wf |-> TRUE, y |-> y, m |-> m, d |-> d]
DateTimeStr(y, m, d, hh, mi, off) ==
    [present |-> TRUE, wf |-> TRUE, y |-> y, m |-> m, d |-> d,
     hh |-> hh, mi |-> mi, off |-> off]
BadStr == [present |-> TRUE, wf |-> FALSE]

\* datetime.strptime(date_str, "%Y-%m-%d").replace(tzinfo=timezone)
Strptime(s) ==
    IF s.wf THEN [tag |-> "dt", y |-> s.y, m |-> s.m, d |-> s.d, hh |-> 0, mi |-> 0]
    ELSE Raise

\* datetime.fromisoformat(dt_str).astimezone(timezone)
FromIsoAsTimezone(s) ==
    IF s.wf
    THEN PlusHours([tag |-> "dt", y |-> s.y, m |-> s.m, d |-> s.d,
                    hh |-> s.hh, mi |-> s.mi], TIMEZONE_OFFSET - s.off)
    ELSE Raise

\* _parse_event_time: [tag, dt, all_day], tag "raise" when parsing raises
parse_event_time(event) ==
    IF event.start.date.present
    THEN LET dt == Strptime(event.start.date) IN
         IF dt.tag = "raise" THEN [tag |-> "raise", dt |-> NoneVal, all_day |-> TRUE]
         ELSE [tag |-> "ok", dt |-> dt, all_day |-> TRUE]
    ELSE IF event.start.dateTime.present
    THEN LET dt == FromIsoAsTimezone(event.start.dateTime) IN
         IF dt.tag = "raise" THEN [tag |-> "raise", dt |-> NoneVal, all_day |-> FALSE]
         ELSE [tag |-> "ok", dt |-> dt, all_day |-> FALSE]
    ELSE [tag |-> "ok", dt |-> NoneVal, all_day |-> FALSE]

\* _parse_event_end_time: a datetime, NoneVal, or Raise
parse_event_end_time(event) ==
    IF event.end.date.present THEN Strptime(event.end.date)
    ELSE IF event.end.dateTime.present THEN FromIsoAsTimezone(event.end.dateTime)
    ELSE NoneVal

\* Mutant: the minutes are rendered at the top of the hour too
format_time_AlwaysMinutes(dt) ==
    LET h12 == IF dt.hh % 12 = 0 THEN 12 ELSE dt.hh % 12
        ampm == IF dt.hh < 12 THEN <<"A", "M">> ELSE <<"P", "M">>
    IN Digits(h12) \o <<":">> \o Pad2(dt.mi) \o <<" ">> \o ampm

\* calendar.py _format_time
format_time(dt) ==
    LET h12 == IF dt.hh % 12 = 0 THEN 12 ELSE dt.hh % 12
        ampm == IF dt.hh < 12 THEN <<"A", "M">> ELSE <<"P", "M">>
    IN IF dt.mi = 0
       THEN Digits(h12) \o <<" ">> \o ampm
       ELSE Digits(h12) \o <<":">> \o Pad2(dt.mi) \o <<" ">> \o ampm

\* strftime("%a %b %-d")
FormatDate(dt) ==
    DayAbbr(Weekday(dt)) \o <<" ">> \o MonthAbbr(dt.m) \o <<" ">> \o Digits(dt.d)

\* strftime("%b %-d")
FormatMonthDay(dt) == MonthAbbr(dt.m) \o <<" ">> \o Digits(dt.d)

\* strftime("%Y-%m-%d")
FormatIsoDate(dt) == Pad4(dt.y) \o <<"-">> \o Pad2(dt.m) \o <<"-">> \o Pad2(dt.d)

\* The all-day branch of _format_date_range for a multi-day event
AllDayRange(start_dt, actual_end) ==
    IF start_dt.m = actual_end.m
    THEN FormatDate(start_dt) \o <<"-">> \o Digits(actual_end.d)
    ELSE FormatDate(start_dt) \o <<"-">> \o FormatMonthDay(actual_end)

\* Mutant: the exclusive end of an all-day event is not reduced by a day
ActualEnd_NoSubtract(end_dt, is_all_day) == end_dt

\* Mutant: a day is subtracted from the end of timed events too
ActualEnd_AlwaysSubtract(end_dt, is_all_day) == MinusOneDay(end_dt)

\* The end that _format_date_range compares and renders
ActualEnd(end_dt, is_all_day) ==
    IF is_all_day THEN MinusOneDay(end_dt) ELSE end_dt

format_date_range(start_dt, end_dt, is_all_day) ==
    IF end_dt.tag = "none" THEN FormatDate(start_dt)
    ELSE LET actual_end == ActualEnd(end_dt, is_all_day) IN
         IF DateOf(start_dt) = DateOf(actual_end) THEN FormatDate(start_dt)
         ELSE IF is_all_day THEN AllDayRange(start_dt, actual_end)
         ELSE FormatDate(start_dt) \o <<" ">> \o format_time(start_dt) \o <<"-">>
              \o FormatMonthDay(actual_end) \o <<" ">> \o format_time(actual_end)

\* The record normalize_event builds once start and end are parsed
BuildEvent(event, calendar_id, start_dt, end_dt, is_all_day) ==
    [id |-> event.id,
     date |-> FormatIsoDate(start_dt),
     date_formatted |-> format_date_range(start_dt, end_dt, is_all_day),
     start_time |-> IF is_all_day THEN <<>> ELSE format_time(start_dt),
     end_time |-> IF is_all_day \/ end_dt.tag = "none" THEN <<>>
                  ELSE format_time(end_dt),
     all_day |-> is_all_day,
     calendar_id |-> calendar_id]

\* Mutant: normalize_event without the check of the cancelled status
normalize_event_NoCancelCheck(event, calendar_id) ==
    LET p == parse_event_time(event) IN
    IF p.tag = "raise" THEN Raise
    ELSE IF p.dt.tag = "none" THEN NoneVal
    ELSE LET end_dt == parse_event_end_time(event) IN
         IF end_dt.tag = "raise" THEN Raise
         ELSE [tag |-> "event",
               ev |-> BuildEvent(event, calendar_id, p.dt, end_dt, p.all_day)]

\* normalize_event: [tag |-> "event", ev |-> ...], NoneVal (skipped) or Raise
normalize_event(event, calendar_id) ==
    IF event.status = "cancelled" THEN NoneVal
    ELSE LET p == parse_event_time(event) IN
         IF p.tag = "raise" THEN Raise
         ELSE IF p.dt.tag = "none" THEN NoneVal
         ELSE LET end_dt == parse_event_end_time(event) IN
              IF end_dt.tag = "raise" THEN Raise
              ELSE [tag |-> "event",
                    ev |-> BuildEvent(event, calendar_id, p.dt, end_dt, p.all_day)]

-----------------------------------------------------------------------------
(* Upstream event records *)

RawEvent(id, status, start_date, start_dateTime, end_date, end_dateTime) ==
    [id |-> id, status |-> status,
     start |-> [date |-> start_date, dateTime |-> start_dateTime],
     end |-> [date |-> end_date, dateTime |-> end_dateTime]]

AllDayEvent(id, status, s, e) == RawEvent(id, status, s, Absent, e, Absent)
TimedEvent(id, status, s, e) == RawEvent(id, status, Absent, s, Absent, e)

\* Years and months the formatted dates are drawn from
YearSpan == 1
Years == 2024..(2024 + YearSpan)
CheckedMonths == {1, 2, 3, 4, 12}

Dates ==
    {DateStr(y, m, d) : <<y, m, d>> \in
        {t \in Years \X CheckedMonths \X (1..31) : t[3] <= DaysInMonth(t[1], t[2])}}

\* a is an earlier date than b
DateStrLess(a, b) ==
    \/ a.y < b.y
    \/ a.y = b.y /\ a.m < b.m
    \/ a.y = b.y /\ a.m = b.m /\ a.d < b.d

\* Start instants of timed events, with the UTC offset of the upstream string
TimedStarts ==
    {DateTimeStr(t[1], t[2], t[3], hh, mi, off) :
        t \in {<<2024, 2, 29>>, <<2024, 3, 30>>, <<2024, 12, 31>>},
        hh \in {0, 9, 10, 12, 22}, mi \in {0, 5, 30}, off \in {0 - 5, 0}}

\* Length of a timed event in hours
TimedSpans == {1, 12, 24}

DateTimeStrPlusHours(s, k) ==
    LET dt == PlusHours([tag |-> "dt", y |-> s.y, m |-> s.m, d |-> s.d,
                         hh |-> s.hh, mi |-> s.mi], k)
    IN DateTimeStr(dt.y, dt.m, dt.d, dt.hh, dt.mi, s.off)

\* The records normalize_event is applied to
FmtRecords ==
    {AllDayEvent("e", "confirmed", t[1], t[2]) :
        t \in {u \in Dates \X Dates : DateStrLess(u[1], u[2])}}
    \cup {AllDayEvent("e", st, s, Absent) :
            st \in {"confirmed", "cancelled"}, s \in Dates}
    \cup {AllDayEvent("e", "cancelled", DateStr(2024, 3, 18), DateStr(2024, 3, 23))}
    \cup {TimedEvent("e", "confirmed", s, DateTimeStrPlusHours(s, k)) :
            s \in TimedStarts, k \in TimedSpans}
    \cup {TimedEvent("e", "confirmed", s, Absent) : s \in TimedStarts}
    \cup {RawEvent("e", st, Absent, Absent, Absent, Absent) :
            st \in {"confirmed", "cancelled"}}
    \cup {AllDayEvent("e", st, BadStr, e) :
            st \in {"confirmed", "cancelled"}, e \in {Absent, BadStr}}
    \cup {TimedEvent("e", "confirmed", BadStr, Absent)}
    \cup {AllDayEvent("e", "confirmed", DateStr(2024, 3, 18), BadStr)}

Pending == [tag |-> "pending"]
Idle == [tag |-> "idle"]

-----------------------------------------------------------------------------
(* weather.py *)

\* JSON null where a number is expected (all such numbers are >= 0)
Null == 0 - 1

\* round(x) of a value given in tenths: nearest integer, ties to even
RoundTenths(x) ==
    LET q == x \div 10
        r == x % 10
    IN IF r < 5 THEN q
       ELSE IF r > 5 THEN q + 1
       ELSE IF q % 2 = 0 THEN q ELSE q + 1

\* round(x, 1) of a value given in hundredths, as tenths (nearest tenth;
\* the inputs used have no tie)
RoundHundredths(x) == IF x % 10 < 5 THEN x \div 10 ELSE (x \div 10) + 1

\* _degrees_to_compass: round(degrees / 22.5) % 16 (no tie for whole degrees)
degrees_to_compass(degrees) ==
    <<"N", "NNE", "NE", "ENE", "E", "ESE", "SE", "SSE",
      "S", "SSW", "SW", "WSW", "W", "WNW", "NW", "NNW">>[
        (((4 * degrees + 45) \div 90) % 16) + 1]

\* weather.py _format_time on a time of day given in minutes: "%-I:%M %p"
weather_format_time(minute_of_day) ==
    LET hh == minute_of_day \div 60
        h12 == IF hh % 12 = 0 THEN 12 ELSE hh % 12
    IN Digits(h12) \o <<":">> \o Pad2(minute_of_day % 60) \o <<" ">>
       \o (IF hh < 12 THEN <<"A", "M">> ELSE <<"P", "M">>)

\* _format_hour on an hour count (hours since midnight of the first day): "%-I %p"
format_hour(hour) ==
    LET hh == hour % 24
        h12 == IF hh % 12 = 0 THEN 12 ELSE hh % 12
    IN Digits(h12) \o <<" ">> \o (IF hh < 12 THEN <<"A", "M">> ELSE <<"P", "M">>)

\* _weather_code_to_icon, each SVG by its variable's name
weather_code_to_icon(code) ==
    CASE code \in {0, 1} -> "sun"
      [] code = 2 -> "part_cloud"
      [] code = 3 -> "cloud"
      [] code \in {45, 48} -> "fog"
      [] code \in {51, 53, 55, 56, 57, 61, 63, 65, 66, 67, 80, 81, 82} -> "rain"
      [] code \in {71, 73, 75, 77, 85, 86} -> "snow"
      [] code \in {95, 96, 99} -> "storm"
      [] OTHER -> "cloud"

\* _weather_code_to_condition
weather_code_to_condition(code) ==
    CASE code = 0 -> "Clear" [] code = 1 -> "Mostly Clear"
      [] code = 2 -> "Partly Cloudy" [] code = 3 -> "Overcast"
      [] code = 45 -> "Foggy" [] code = 48 -> "Icy Fog"
      [] code = 51 -> "Light Drizzle" [] code = 53 -> "Drizzle"
      [] code = 55 -> "Heavy Drizzle" [] code = 56 -> "Freezing Drizzle"
      [] code = 57 -> "Heavy Freezing Drizzle" [] code = 61 -> "Light Rain"
      [] code = 63 -> "Rain" [] code = 65 -> "Heavy Rain"
      [] code = 66 -> "Freezing Rain" [] code = 67 -> "Heavy Freezing Rain"
      [] code = 71 -> "Light Snow" [] code = 73 -> "Snow"
      [] code = 75 -> "Heavy Snow" [] code = 77 -> "Snow Grains"
      [] code = 80 -> "Light Showers" [] code = 81 -> "Showers"
      [] code = 82 -> "Heavy Showers" [] code = 85 -> "Light Snow Showers"
      [] code = 86 -> "Heavy Snow Showers" [] code = 95 -> "Thunderstorm"
      [] code = 96 -> "Thunderstorm with Hail"
      [] code = 99 -> "Heavy Thunderstorm with Hail"
      [] OTHER -> "Unknown"

\* The hourly cap of get_all_weather (len(hourly) >= 24)
HOURLY_LIMIT == 24

\* The exclusive upper index of the daily loop (min(8, len(daily["time"])))
DAILY_STOP == 8

\* Mutant: the current time is not truncated to the hour
CurrentHour_NoTruncate(now) == now

\* now.replace(minute=0, second=0, microsecond=0, tzinfo=None), now and the
\* result in minutes since midnight of the first forecast day
CurrentHour(now) == (now \div 60) * 60

\* Mutant: an hour beyond the air-quality series gets 0, not null
HourAirQuality_ZeroDefault(hourly_aq, i) ==
    IF i - 1 < Len(hourly_aq.time)
    THEN [aqi |-> IF hourly_aq.us_aqi[i] /= Null
                  THEN RoundTenths(hourly_aq.us_aqi[i]) ELSE Null,
          uv |-> IF hourly_aq.uv_index[i] /= Null
                 THEN RoundHundredths(hourly_aq.uv_index[i]) ELSE Null]
    ELSE [aqi |-> 0, uv |-> 0]

\* aqi and uv of forecast index i (1-based here, i - 1 in the program)
HourAirQuality(hourly_aq, i) ==
    IF i - 1 < Len(hourly_aq.time)
    THEN [aqi |-> IF hourly_aq.us_aqi[i] /= Null
                  THEN RoundTenths(hourly_aq.us_aqi[i]) ELSE Null,
          uv |-> IF hourly_aq.uv_index[i] /= Null
                 THEN RoundHundredths(hourly_aq.uv_index[i]) ELSE Null]
    ELSE [aqi |-> Null, uv |-> Null]

\* The record appended for forecast index i; idx is the program's index
HourEntry(hourly_weather, hourly_aq, i) ==
    LET aq == HourAirQuality(hourly_aq, i) IN
    [idx |-> i - 1,
     hour |-> format_hour(hourly_weather.time[i]),
     temp |-> RoundTenths(hourly_weather.temperature_2m[i]),
     precip_chance |-> IF hourly_weather.precipitation_probability[i] = Null
                       THEN 0 ELSE hourly_weather.precipitation_probability[i],
     wind_speed |-> RoundTenths(hourly_weather.wind_speed_10m[i]),
     wind_dir |-> degrees_to_compass(hourly_weather.wind_direction_10m[i]),
     uv |-> aq.uv,
     aqi |-> aq.aqi,
     icon |-> weather_code_to_icon(hourly_weather.weather_code[i])]

\* Whether the loop skips forecast index i (hour_time < current_hour)
SkipsHour(hour_time, current_hour) == hour_time * 60 < current_hour

RECURSIVE HourlyLoop(_, _, _, _, _)
\* The hourly loop from index i on, hourly being the list built so far
HourlyLoop(hourly_weather, hourly_aq, current_hour, i, hourly) ==
    IF i > Len(hourly_weather.time) THEN hourly
    ELSE IF SkipsHour(hourly_weather.time[i], current_hour)
    THEN HourlyLoop(hourly_weather, hourly_aq, current_hour, i + 1, hourly)
    ELSE IF Len(hourly) >= HOURLY_LIMIT THEN hourly
    ELSE HourlyLoop(hourly_weather, hourly_aq, current_hour, i + 1,
                    Append(hourly, HourEntry(hourly_weather, hourly_aq, i)))

RECURSIVE MaxOf(_)
MaxOf(s) == IF Len(s) = 1 THEN s[1]
            ELSE LET m == MaxOf(Tail(s)) IN IF s[1] >= m THEN s[1] ELSE m

\* Mutant: the first non-null value is taken, not the largest
MaxNonNull_First(values) ==
    LET kept == SelectSeq(values, LAMBDA v : v /= Null) IN
    IF kept = <<>> THEN Null ELSE kept[1]

\* max(values) if values else None, over the non-null values of a field
MaxNonNull(values) ==
    LET kept == SelectSeq(values, LAMBDA v : v /= Null) IN
    IF kept = <<>> THEN Null ELSE MaxOf(kept)

RECURSIVE PlusDays(_, _)
PlusDays(dt, k) == IF k = 0 THEN dt ELSE PlusDays(PlusOneDay(dt), k - 1)

\* Mutant: the daily loop starts at today (range(0, min(8, n)))
DailyIndices_FromToday(n) ==
    LET stop == IF DAILY_STOP < n THEN DAILY_STOP ELSE n IN
    [k \in 1..stop |-> k]

\* The indices (1-based here) the daily loop visits: range(1, min(8, n))
DailyIndices(n) ==
    LET stop == IF DAILY_STOP < n THEN DAILY_STOP ELSE n IN
    [k \in 1..(IF stop > 1 THEN stop - 1 ELSE 0) |-> k + 1]

DayEntry(daily, i) ==
    [idx |-> i - 1,
     date |-> FormatDate(daily.time[i]),
     high |-> RoundTenths(daily.temperature_2m_max[i]),
     low |-> RoundTenths(daily.temperature_2m_min[i]),
     precip_chance |-> IF daily.precipitation_probability_max[i] = Null
                       THEN 0 ELSE daily.precipitation_probability_max[i]]

\* The body of get_all_weather's try block once both fetches returned 200;
\* a missing key (KeyError) or an empty daily series (IndexError) raises
BuildSnapshot(forecast_body, air_body, now) ==
    IF "current" \notin forecast_body.keys \/ "daily" \notin forecast_body.keys
    THEN Raise
    ELSE IF Len(forecast_body.daily.time) = 0 THEN Raise
    ELSE IF "hourly" \notin forecast_body.keys \/ "hourly" \notin air_body.keys
    THEN Raise
    ELSE
      LET daily == forecast_body.daily
          hourly == HourlyLoop(forecast_body.hourly, air_body.hourly,
                               CurrentHour(now), 1, <<>>)
          idxs == DailyIndices(Len(daily.time))
      IN [tag |-> "weather",
          current |-> [temp |-> RoundTenths(forecast_body.current.temperature_2m),
                       feels_like |-> RoundTenths(forecast_body.current.apparent_temperature),
                       humidity |-> RoundTenths(forecast_body.current.relative_humidity_2m),
                       weather_code |-> forecast_body.current.weather_code,
                       condition |-> weather_code_to_condition(
                                         forecast_body.current.weather_code)],
          today |-> [high |-> RoundTenths(daily.temperature_2m_max[1]),
                     low |-> RoundTenths(daily.temperature_2m_min[1]),
                     sunrise |-> weather_format_time(daily.sunrise[1]),
                     sunset |-> weather_format_time(daily.sunset[1]),
                     max_uv |-> MaxNonNull([k \in 1..Len(hourly) |-> hourly[k].uv]),
                     max_aqi |-> MaxNonNull([k \in 1..Len(hourly) |-> hourly[k].aqi])],
          hourly |-> hourly,
          daily |-> [k \in 1..Len(idxs) |-> DayEntry(daily, idxs[k])]]

\* Mutant: the exception is not caught
CatchAll_Reraise(result) == result

\* get_all_weather's except clause: any exception gives None
CatchAll(result) == IF result.tag = "raise" THEN NoneVal ELSE result

\* get_weather_data / get_air_quality: a non-200 status raises WeatherError
FetchRaises(resp) == resp.status /= 200

\* get_all_weather on the two upstream responses
get_all_weather(forecast_resp, air_resp, now) ==
    IF FetchRaises(forecast_resp) THEN NoneVal
    ELSE IF FetchRaises(air_resp) THEN NoneVal
    ELSE CatchAll(BuildSnapshot(forecast_resp.body, air_resp.body, now))

-----------------------------------------------------------------------------
(* Upstream weather responses *)

\* Longest hourly forecast series and longest daily series drawn
MaxHours == 26
MaxDays == 9

\* An hourly forecast series of n hours whose first hour is t0
ForecastHourly(t0, n) ==
    [time |-> [i \in 1..n |-> t0 + i - 1],
     temperature_2m |-> [i \in 1..n |-> 500 + 7 * i],
     precipitation_probability |-> [i \in 1..n |-> IF i % 3 = 0 THEN Null ELSE 10 * (i % 4)],
     wind_speed_10m |-> [i \in 1..n |-> 30 + 5 * i],
     wind_direction_10m |-> [i \in 1..n |-> (37 * i) % 360],
     weather_code |-> [i \in 1..n |-> <<0, 2, 3, 61, 95, 4>>[(i % 6) + 1]]]

\* A daily series of n days whose first day (today) is 2024-03-30
ForecastDaily(n) ==
    [time |-> [i \in 1..n |->
                 PlusDays([tag |-> "dt", y |-> 2024, m |-> 3, d |-> 30,
                           hh |-> 0, mi |-> 0], i - 1)],
     temperature_2m_max |-> [i \in 1..n |-> 605 + 10 * i],
     temperature_2m_min |-> [i \in 1..n |-> 400 + 3 * i],
     precipitation_probability_max |-> [i \in 1..n |-> IF i % 2 = 0 THEN Null ELSE 5 * i],
     sunrise |-> [i \in 1..n |-> 6 * 60 + 15 - i],
     sunset |-> [i \in 1..n |-> 19 * 60 + i]]

\* An air-quality series of m hours: us_aqi in tenths, uv_index in hundredths.
\* Profile 1 is all null, profile 2 rises with the index, profile 3 has its
\* peaks at the first indices and nulls in between.
AirHourly(m, profile) ==
    [time |-> [i \in 1..m |-> i - 1],
     us_aqi |-> [i \in 1..m |->
                   CASE profile = 1 -> Null
                     [] profile = 2 -> 400 + 15 * i
                     [] OTHER -> IF i = 1 THEN 1500
                                 ELSE IF i % 2 = 0 THEN Null ELSE 300 + i],
     uv_index |-> [i \in 1..m |->
                     CASE profile = 1 -> Null
                       [] profile = 2 -> 100 + 12 * i
                       [] OTHER -> IF i = 2 THEN 900
                                   ELSE IF i % 2 = 1 THEN Null ELSE 120 + i]]

CurrentConditions ==
    [temperature_2m |-> 515, apparent_temperature |-> 485,
     relative_humidity_2m |-> 640, weather_code |-> 61]

ForecastResponse(status, keys, t0, n_hours, n_days) ==
    [status |-> status,
     body |-> [keys |-> keys, current |-> CurrentConditions,
               hourly |-> ForecastHourly(t0, n_hours),
               daily |-> ForecastDaily(n_days)]]

AirResponse(status, keys, m, profile) ==
    [status |-> status, body |-> [keys |-> keys, hourly |-> AirHourly(m, profile)]]

ForecastKeys == {"current", "hourly", "daily"}
AirKeys == {"hourly"}

\* The inputs get_all_weather is applied to: [forecast, air, now], now in
\* minutes since midnight of the first forecast day
WxInputs ==
    \* hourly series of every length against every current time
    {[forecast |-> ForecastResponse(200, ForecastKeys, t0, n, 8),
      air |-> AirResponse(200, AirKeys, a[1], a[2]),
      now |-> 60 * h + mi] :
        t0 \in {0, 3}, n \in 0..MaxHours,
        a \in {<<0, 2>>, <<2, 2>>, <<12, 3>>, <<MaxHours + 1, 1>>,
               <<MaxHours + 1, 2>>, <<MaxHours + 1, 3>>},
        h \in 0..(MaxHours + 4), mi \in {0, 59}}
    \cup
    \* daily series of every length
    {[forecast |-> ForecastResponse(200, ForecastKeys, 0, 3, n),
      air |-> AirResponse(200, AirKeys, 3, 2),
      now |-> 60] : n \in 0..MaxDays}
    \cup
    \* failed fetches and responses with a key missing
    {[forecast |-> ForecastResponse(fs, ForecastKeys \ fk, 0, 4, 8),
      air |-> AirResponse(as, AirKeys \ ak, 2, 2),
      now |-> 90] :
        fs \in {200, 500}, fk \in {{}, {"current"}, {"hourly"}, {"daily"}},
        as \in {200, 503}, ak \in {{}, {"hourly"}}}

-----------------------------------------------------------------------------
(* Values of the variables a specification does not use *)

NONE == "<None>"
NoResponse == [status |-> 0, keys |-> {}, error |-> "", event_count |-> 0,
               events |-> <<>>, weather |-> NoneVal]

ReqOff ==
    /\ token_store = NONE
    /\ pc = "off"
    /\ cal_idx = 0
    /\ page_token = NONE
    /\ events = <<>>
    /\ all_events = <<>>
    /\ weather_data = NoneVal
    /\ air_quality_data = NoneVal
    /\ response = NoResponse
    /\ sent = <<>>
    /\ pages = <<>>
    /\ fetched = <<>>
    /\ token_log = <<>>

FmtOff == fmt_in = NoneVal /\ fmt_out = Idle
WxOff == wx_in = NoneVal /\ wx_out = Idle
OAuthOff ==
    /\ oauth_state = NONE
    /\ issued = 0
    /\ inflight = <<>>
    /\ last_cb = NoneVal

-----------------------------------------------------------------------------
(* normalize_event applied to one upstream record *)

InitFmt ==
    /\ fmt_in \in FmtRecords
    /\ fmt_out = Pending
    /\ ReqOff
    /\ WxOff
    /\ OAuthOff

Normalize ==
    /\ fmt_out = Pending
    /\ fmt_out' = normalize_event(fmt_in, "primary")
    /\ UNCHANGED <<fmt_in, req_vars, wx_vars, oauth_vars>>

NextFmt == Normalize

SpecFmt == InitFmt /\ [][NextFmt]_vars

-----------------------------------------------------------------------------
(* calendar.py _format_time applied to one timestamp *)

\* Every time of day of one date, to the minute
ClockTimes ==
    {[tag |-> "dt", y |-> 2024, m |-> 3, d |-> 30, hh |-> hh, mi |-> mi] :
        hh \in 0..23, mi \in 0..59}

InitClock ==
    /\ fmt_in \in ClockTimes
    /\ fmt_out = Pending
    /\ ReqOff
    /\ WxOff
    /\ OAuthOff

FormatTime ==
    /\ fmt_out = Pending
    /\ fmt_out' = [tag |-> "time", text |-> format_time(fmt_in)]
    /\ UNCHANGED <<fmt_in, req_vars, wx_vars, oauth_vars>>

NextClock == FormatTime

SpecClock == InitClock /\ [][NextClock]_vars

-----------------------------------------------------------------------------
(* get_all_weather applied to one pair of upstream responses *)

InitWeather ==
    /\ wx_in \in WxInputs
    /\ wx_out = Pending
    /\ ReqOff
    /\ FmtOff
    /\ OAuthOff

Aggregate ==
    /\ wx_out = Pending
    /\ wx_out' = get_all_weather(wx_in.forecast, wx_in.air, wx_in.now)
    /\ UNCHANGED <<wx_in, req_vars, fmt_vars, oauth_vars>>

NextWeather == Aggregate

SpecWeather == InitWeather /\ [][NextWeather]_vars

-----------------------------------------------------------------------------
(* calendar.py: fetch_calendar_events and get_all_events *)

CALENDAR_IDS == <<"primary", "family">>

\* Mutant: the status of a page response is not checked
PageFails_Never(resp) == FALSE

\* response.status_code != 200 in fetch_calendar_events
PageFails(resp) == resp.status /= 200

\* bool(page_token): None and "" are false
Truthy(tok) == tok /= NONE /\ tok /= ""

RECURSIVE NormalizeItems(_, _)
\* The for loop over data["items"]: the events appended, or Raise when
\* normalize_event raises on an item
NormalizeItems(items, calendar_id) ==
    IF items = <<>> THEN [tag |-> "ok", evs |-> <<>>]
    ELSE LET n == normalize_event(Head(items), calendar_id) IN
         IF n.tag = "raise" THEN Raise
         ELSE LET rest == NormalizeItems(Tail(items), calendar_id) IN
              IF rest.tag = "raise" THEN Raise
              ELSE [tag |-> "ok",
                    evs |-> (IF n.tag = "event" THEN <<n.ev>> ELSE <<>>) \o rest.evs]

\* Mutant: the all-day flag of the sort key is inverted
sort_key_AllDayLast(e) == <<e.date, IF e.all_day THEN 1 ELSE 0, e.start_time>>

\* get_all_events sort_key
sort_key(e) == <<e.date, IF e.all_day THEN 0 ELSE 1, e.start_time>>

\* Python's tuple order on two sort keys
KeyLess(a, b) ==
    \/ StrLess(a[1], b[1])
    \/ a[1] = b[1] /\ a[2] < b[2]
    \/ a[1] = b[1] /\ a[2] = b[2] /\ StrLess(a[3], b[3])

RECURSIVE InsertSorted(_, _)
InsertSorted(x, s) ==
    IF s = <<>> THEN <<x>>
    ELSE IF KeyLess(sort_key(x), sort_key(Head(s))) THEN <<x>> \o s
    ELSE <<Head(s)>> \o InsertSorted(x, Tail(s))

RECURSIVE SortEvents(_)
\* all_events.sort(key=sort_key): a stable sort
SortEvents(s) ==
    IF s = <<>> THEN <<>>
    ELSE InsertSorted(s[Len(s)], SortEvents(SubSeq(s, 1, Len(s) - 1)))

-----------------------------------------------------------------------------
(* The upstream of one /api/events request *)

\* Records the upstream serves in one request, and pages in one calendar fetch
MaxRecords == 3
MaxPages == 2

\* Records the per-calendar results handed to the sort hold together
MaxSortItems == 4

TimedTen == TimedEvent("t10", "confirmed", DateTimeStr(2024, 3, 30, 10, 0, 0),
                  DateTimeStr(2024, 3, 30, 11, 30, 0))
TimedNine == TimedEvent("t9", "confirmed", DateTimeStr(2024, 3, 30, 9, 0, 0), Absent)
AllDayA == AllDayEvent("a1", "confirmed", DateStr(2024, 3, 30), DateStr(2024, 3, 31))
AllDayLater == AllDayEvent("a2", "confirmed", DateStr(2024, 4, 2), DateStr(2024, 4, 4))
CancelledOk == AllDayEvent("c1", "cancelled", DateStr(2024, 3, 30), DateStr(2024, 3, 31))
CancelledBad == TimedEvent("c2", "cancelled", BadStr, BadStr)
BadDate == AllDayEvent("b1", "confirmed", BadStr, Absent)
NoStart == RawEvent("n1", "confirmed", Absent, Absent, Absent, Absent)

\* 2024-03-29T22:00-05:00, which is 03:00 on 2024-03-30 in the display timezone
TimedShifted == TimedEvent("ts", "confirmed", DateTimeStr(2024, 3, 29, 22, 0, 0 - 5),
                           DateTimeStr(2024, 3, 29, 23, 0, 0 - 5))

\* The records served to a request, and to the sort of get_all_events
ReqRecords == {TimedTen, CancelledOk, BadDate}
SortRecords == {TimedTen, TimedNine, TimedShifted, AllDayA, AllDayLater}
CancelledIds == {r.id : r \in {q \in ReqRecords : q.status = "cancelled"}}

SeqsUpTo(S, k) == UNION {[1..n -> S] : n \in 0..k}

PageTokens == {"tok1", "tok2"}

\* Responses to a calendar page request, with at most k items
PageResponses(k) ==
    {[status |-> 200, items |-> it, next |-> nx] :
        it \in SeqsUpTo(ReqRecords, k), nx \in {NONE} \cup PageTokens}
    \cup {[status |-> st, items |-> <<>>, next |-> NONE] : st \in {403, 500}}

RECURSIVE CountItems(_)
CountItems(pgs) ==
    IF pgs = <<>> THEN 0 ELSE Len(Head(pgs).items) + CountItems(Tail(pgs))

RECURSIVE CountFetched(_)
CountFetched(fs) ==
    IF fs = <<>> THEN 0 ELSE CountItems(Head(fs).pages) + CountFetched(Tail(fs))

\* Records served so far in this request
Served == CountItems(pages) + CountFetched(fetched)

ReqForecasts ==
    {ForecastResponse(200, ForecastKeys, 0, 3, 3),
     ForecastResponse(200, ForecastKeys \ {"hourly"}, 0, 3, 3),
     ForecastResponse(500, ForecastKeys, 0, 3, 3)}

ReqAirs ==
    {AirResponse(200, AirKeys, 2, 2),
     AirResponse(200, {}, 2, 2),
     AirResponse(503, AirKeys, 2, 2)}

\* datetime.now(tz) at the weather aggregation, minutes since midnight
ReqNows == {90}

-----------------------------------------------------------------------------
(* main.py: the /api/events request *)

API_SECRET == "s3cret"

\* The Authorization header: whether it starts with "Bearer ", and the rest
Headers == {[bearer |-> FALSE, token |-> ""],
            [bearer |-> TRUE, token |-> "wrong"],
            [bearer |-> TRUE, token |-> API_SECRET]}

\* storage.py load_token and is_authenticated
load_token == token_store
is_authenticated == load_token /= NONE

ErrorResponse(status, error) ==
    [status |-> status, keys |-> {"error", "message"}, error |-> error,
     event_count |-> 0, events |-> <<>>, weather |-> NoneVal]

\* The dict get_events returns (FastAPI answers 200)
EventsResponse(evs, weather) ==
    [status |-> 200,
     keys |-> {"generated_at", "timezone", "event_count", "events", "weather"},
     error |-> "", event_count |-> Len(evs), events |-> evs, weather |-> weather]

\* Mutant: a rejected refresh is not noticed
RefreshRaises_Never(status) == FALSE

\* refresh_access_token: response.status_code != 200 raises OAuthError
RefreshRaises(status) == status /= 200

\* Mutant: the continuation token is not passed on
PageTokenParam_Dropped(tok) == NONE

\* The pageToken parameter of a page request (NONE: no such parameter)
PageTokenParam(tok) == IF Truthy(tok) THEN tok ELSE NONE

Init ==
    /\ token_store \in {NONE, "", "rt"}
    /\ pc = "idle"
    /\ cal_idx = 0
    /\ page_token = NONE
    /\ events = <<>>
    /\ all_events = <<>>
    /\ weather_data = NoneVal
    /\ air_quality_data = NoneVal
    /\ response = NoResponse
    /\ sent = <<>>
    /\ pages = <<>>
    /\ fetched = <<>>
    /\ token_log = <<>>
    /\ FmtOff
    /\ WxOff
    /\ OAuthOff

\* get_events up to its first await: the API key check, is_authenticated,
\* and refresh_access_token up to the POST to the token endpoint
GetEvents(header) ==
    /\ pc \in {"idle", "done"}
    /\ cal_idx' = 0
    /\ page_token' = NONE
    /\ events' = <<>>
    /\ all_events' = <<>>
    /\ weather_data' = NoneVal
    /\ air_quality_data' = NoneVal
    /\ sent' = <<>>
    /\ pages' = <<>>
    /\ fetched' = <<>>
    /\ IF API_SECRET /= "" /\ (~header.bearer \/ header.token /= API_SECRET)
       THEN /\ response' = ErrorResponse(401, "unauthorized")
            /\ pc' = "done"
            /\ token_log' = <<>>
       ELSE IF ~is_authenticated
       THEN /\ response' = ErrorResponse(401, "not_authenticated")
            /\ pc' = "done"
            /\ token_log' = <<>>
       ELSE IF ~Truthy(load_token)
       THEN /\ response' = ErrorResponse(401, "token_expired")
            /\ pc' = "done"
            /\ token_log' = <<>>
       ELSE /\ response' = NoResponse
            /\ pc' = "refresh"
            /\ token_log' = <<0>>
    /\ UNCHANGED <<token_store, fmt_vars, wx_vars, oauth_vars>>

\* The token endpoint answers: refresh_access_token returns or raises, and
\* get_all_events issues the first page request of the first calendar
TokenArrives(status) ==
    /\ pc = "refresh"
    /\ token_log' = <<status>>
    /\ IF RefreshRaises(status)
       THEN /\ response' = ErrorResponse(401, "token_expired")
            /\ pc' = "done"
            /\ UNCHANGED <<cal_idx, sent, all_events>>
       ELSE IF Len(CALENDAR_IDS) = 0
       THEN /\ all_events' = SortEvents(<<>>)
            /\ pc' = "forecast"
            /\ UNCHANGED <<cal_idx, sent, response>>
       ELSE /\ cal_idx' = 1
            /\ sent' = <<PageTokenParam(NONE)>>
            /\ pc' = "fetch"
            /\ UNCHANGED <<response, all_events>>
    /\ UNCHANGED <<token_store, page_token, events, weather_data,
                   air_quality_data, pages, fetched, fmt_vars, wx_vars, oauth_vars>>

\* A calendar page request is answered: one pass of the while loop of
\* fetch_calendar_events and, when it breaks, the rest of get_all_events up
\* to the next request it awaits
PageArrives(resp) ==
    /\ pc = "fetch"
    /\ Len(pages) < MaxPages
    /\ LET cid == CALENDAR_IDS[cal_idx]
           norm == NormalizeItems(resp.items, cid)
       IN IF PageFails(resp) \/ norm.tag = "raise"
          THEN /\ response' = ErrorResponse(500, "calendar_error")
               /\ pc' = "done"
               /\ pages' = Append(pages, resp)
               /\ UNCHANGED <<cal_idx, page_token, events, all_events, sent, fetched>>
          ELSE IF Truthy(resp.next)
          THEN /\ events' = events \o norm.evs
               /\ page_token' = resp.next
               /\ sent' = Append(sent, PageTokenParam(resp.next))
               /\ pages' = Append(pages, resp)
               /\ UNCHANGED <<cal_idx, all_events, fetched, response, pc>>
          ELSE /\ fetched' = Append(fetched,
                                    [calendar_id |-> cid, sent |-> sent,
                                     pages |-> Append(pages, resp),
                                     events |-> events \o norm.evs])
               /\ events' = <<>>
               /\ page_token' = NONE
               /\ pages' = <<>>
               /\ UNCHANGED response
               /\ IF cal_idx < Len(CALENDAR_IDS)
                  THEN /\ all_events' = all_events \o events \o norm.evs
                       /\ cal_idx' = cal_idx + 1
                       /\ sent' = <<PageTokenParam(NONE)>>
                       /\ pc' = "fetch"
                  ELSE /\ all_events' = SortEvents(all_events \o events \o norm.evs)
                       /\ sent' = <<>>
                       /\ pc' = "forecast"
                       /\ UNCHANGED cal_idx
    /\ UNCHANGED <<token_store, token_log, weather_data, air_quality_data,
                   fmt_vars, wx_vars, oauth_vars>>

\* The forecast request of get_all_weather is answered
ForecastArrives(resp) ==
    /\ pc = "forecast"
    /\ IF FetchRaises(resp)
       THEN /\ response' = EventsResponse(all_events, NoneVal)
            /\ pc' = "done"
            /\ UNCHANGED weather_data
       ELSE /\ weather_data' = resp.body
            /\ pc' = "air_quality"
            /\ UNCHANGED response
    /\ fetched' = <<>>
    /\ UNCHANGED <<token_store, token_log, cal_idx, page_token, events, all_events,
                   air_quality_data, sent, pages, fmt_vars, wx_vars, oauth_vars>>

\* The air-quality request is answered: the rest of get_all_weather and of
\* get_events
AirQualityArrives(resp, now) ==
    /\ pc = "air_quality"
    /\ IF FetchRaises(resp)
       THEN /\ response' = EventsResponse(all_events, NoneVal)
            /\ UNCHANGED air_quality_data
       ELSE /\ air_quality_data' = resp.body
            /\ response' = EventsResponse(all_events,
                               CatchAll(BuildSnapshot(weather_data, resp.body, now)))
    /\ pc' = "done"
    /\ UNCHANGED <<token_store, token_log, cal_idx, page_token, events, all_events,
                   weather_data, sent, pages, fetched, fmt_vars, wx_vars, oauth_vars>>

Next ==
    \/ \E header \in Headers : GetEvents(header)
    \/ \E status \in {200, 400} : TokenArrives(status)
    \/ \E resp \in PageResponses(MaxRecords - Served) : PageArrives(resp)
    \/ \E resp \in ReqForecasts : ForecastArrives(resp)
    \/ \E resp \in ReqAirs, now \in ReqNows : AirQualityArrives(resp, now)

Spec == Init /\ [][Next]_vars

-----------------------------------------------------------------------------
(* get_all_events once every calendar fetch has returned: merge and sort *)

\* What fetch_calendar_events returns for one page of items without a
\* continuation token
FetchOf(i, items) ==
    [calendar_id |-> CALENDAR_IDS[i], sent |-> <<PageTokenParam(NONE)>>,
     pages |-> <<[status |-> 200, items |-> items, next |-> NONE]>>,
     events |-> NormalizeItems(items, CALENDAR_IDS[i]).evs]

RECURSIVE ExtendAll(_)
\* all_events after all_events.extend(events) for each calendar in order
ExtendAll(fs) ==
    IF fs = <<>> THEN <<>> ELSE Head(fs).events \o ExtendAll(Tail(fs))

InitSort ==
    /\ fetched \in {<<FetchOf(1, p[1]), FetchOf(2, p[2])>> :
                      p \in {q \in SeqsUpTo(SortRecords, MaxSortItems)
                                   \X SeqsUpTo(SortRecords, MaxSortItems) :
                               Len(q[1]) + Len(q[2]) <= MaxSortItems}}
    /\ pc = "sorting"
    /\ token_store = "rt"
    /\ cal_idx = Len(CALENDAR_IDS)
    /\ page_token = NONE
    /\ events = <<>>
    /\ all_events = <<>>
    /\ weather_data = NoneVal
    /\ air_quality_data = NoneVal
    /\ response = NoResponse
    /\ sent = <<>>
    /\ pages = <<>>
    /\ token_log = <<200>>
    /\ FmtOff
    /\ WxOff
    /\ OAuthOff

MergeAndSort ==
    /\ pc = "sorting"
    /\ all_events' = SortEvents(ExtendAll(fetched))
    /\ pc' = "sorted"
    /\ UNCHANGED <<token_store, token_log, cal_idx, page_token, events, weather_data,
                   air_quality_data, response, sent, pages, fetched,
                   fmt_vars, wx_vars, oauth_vars>>

NextSort == MergeAndSort

SpecSort == InitSort /\ [][NextSort]_vars

-----------------------------------------------------------------------------
(* main.py: /setup, /oauth/callback and /disconnect *)

\* State tokens generate_auth_url may produce, and callbacks that may await
\* the token exchange at the same time
MaxIssued == 2
MaxInFlight == 2

\* secrets.token_urlsafe(32): the n-th token generated, distinct from the others
StateToken(n) == "state" \o ToString(n)

\* The query parameters of a callback request (NONE: parameter absent)
CallbackCodes == {NONE, "", "code"}
CallbackStates == {NONE, "", "forged"} \cup {StateToken(n) : n \in 1..MaxIssued}
CallbackErrors == {NONE, "access_denied"}

\* oauth_callback: state != _oauth_state
StateMismatch(state, slot) == state /= slot

\* exchange_code_for_tokens raises OAuthError: a non-200 reply, or a reply
\* without a refresh token
ExchangeRaises(reply) == reply.status /= 200 \/ ~reply.has_refresh_token

ExchangeReplies ==
    {[status |-> 200, has_refresh_token |-> TRUE],
     [status |-> 200, has_refresh_token |-> FALSE],
     [status |-> 400, has_refresh_token |-> FALSE]}

\* The outcome of a callback: where it redirected, with its state parameter
\* and the _oauth_state it was compared with
CallbackOutcome(result, code, state, slot) ==
    [result |-> result, code |-> code, state |-> state, slot |-> slot]

RemoveAt(q, i) == SubSeq(q, 1, i - 1) \o SubSeq(q, i + 1, Len(q))

InitOAuth ==
    /\ token_store \in {NONE, "rt"}
    /\ oauth_state = NONE
    /\ issued = 0
    /\ inflight = <<>>
    /\ last_cb = NoneVal
    /\ pc = "off"
    /\ cal_idx = 0
    /\ page_token = NONE
    /\ events = <<>>
    /\ all_events = <<>>
    /\ weather_data = NoneVal
    /\ air_quality_data = NoneVal
    /\ response = NoResponse
    /\ sent = <<>>
    /\ pages = <<>>
    /\ fetched = <<>>
    /\ token_log = <<>>
    /\ FmtOff
    /\ WxOff

\* Every variable of the /api/events request but the token store
req_rest == <<pc, cal_idx, page_token, events, all_events, weather_data,
              air_quality_data, response, sent, pages, fetched, token_log>>

\* setup_page: a new state token replaces the slot unless a token is stored
SetupPage ==
    /\ IF ~is_authenticated
       THEN /\ issued < MaxIssued
            /\ oauth_state' = StateToken(issued + 1)
            /\ issued' = issued + 1
       ELSE UNCHANGED <<oauth_state, issued>>
    /\ UNCHANGED <<token_store, inflight, last_cb, req_rest, fmt_vars, wx_vars>>

\* oauth_callback up to its await of exchange_code_for_tokens
OAuthCallback(code, state, error) ==
    /\ IF Truthy(error)
       THEN /\ last_cb' = CallbackOutcome("error", code, state, oauth_state)
            /\ UNCHANGED inflight
       ELSE IF ~Truthy(code)
       THEN /\ last_cb' = CallbackOutcome("no_code", code, state, oauth_state)
            /\ UNCHANGED inflight
       ELSE IF StateMismatch(state, oauth_state)
       THEN /\ last_cb' = CallbackOutcome("invalid_state", code, state, oauth_state)
            /\ UNCHANGED inflight
       ELSE /\ Len(inflight) < MaxInFlight
            /\ inflight' = Append(inflight,
                                   [code |-> code, state |-> state,
                                    slot |-> oauth_state])
            /\ UNCHANGED last_cb
    /\ UNCHANGED <<token_store, oauth_state, issued, req_rest, fmt_vars, wx_vars>>

\* The token endpoint answers the exchange of the i-th waiting callback:
\* the rest of exchange_code_for_tokens and of oauth_callback
ExchangeArrives(i, reply) ==
    /\ i \in 1..Len(inflight)
    /\ inflight' = RemoveAt(inflight, i)
    /\ IF ExchangeRaises(reply)
       THEN /\ last_cb' = CallbackOutcome("exchange_failed", inflight[i].code,
                                          inflight[i].state, inflight[i].slot)
            /\ UNCHANGED <<token_store, oauth_state>>
       ELSE /\ token_store' = "rt"
            /\ oauth_state' = NONE
            /\ last_cb' = CallbackOutcome("success", inflight[i].code,
                                          inflight[i].state, inflight[i].slot)
    /\ UNCHANGED <<issued, req_rest, fmt_vars, wx_vars>>

\* disconnect: delete_token
Disconnect ==
    /\ token_store' = NONE
    /\ UNCHANGED <<oauth_state, issued, inflight, last_cb, req_rest,
                   fmt_vars, wx_vars>>

NextOAuth ==
    \/ SetupPage
    \/ \E code \in CallbackCodes, state \in CallbackStates,
          error \in CallbackErrors : OAuthCallback(code, state, error)
    \/ \E i \in 1..MaxInFlight, reply \in ExchangeReplies : ExchangeArrives(i, reply)
    \/ Disconnect

SpecOAuth == InitOAuth /\ [][NextOAuth]_vars

-----------------------------------------------------------------------------
(* Properties *)

RECURSIVE EventsOfItems(_, _)
\* The events of the items that normalize to an event, in order
EventsOfItems(items, calendar_id) ==
    IF items = <<>> THEN <<>>
    ELSE LET n == normalize_event(Head(items), calendar_id) IN
         (IF n.tag = "event" THEN <<n.ev>> ELSE <<>>)
         \o EventsOfItems(Tail(items), calendar_id)

RECURSIVE EventsOfPages(_, _)
\* The same over a sequence of pages: page order, then in-page order
EventsOfPages(pgs, calendar_id) ==
    IF pgs = <<>> THEN <<>>
    ELSE EventsOfItems(Head(pgs).items, calendar_id)
         \o EventsOfPages(Tail(pgs), calendar_id)

\* A fetch that returned: every page but the last carried a token, which the
\* next request passed; the last page carried none; the events are those of
\* all pages in order
ReturnedFetchFollowsTokens(f) ==
    /\ Len(f.pages) >= 1
    /\ Len(f.sent) = Len(f.pages)
    /\ f.sent[1] = NONE
    /\ \A k \in 1..Len(f.pages) : f.pages[k].status = 200
    /\ \A k \in 1..(Len(f.pages) - 1) :
          f.pages[k].next \in PageTokens /\ f.sent[k + 1] = f.pages[k].next
    /\ f.pages[Len(f.pages)].next = NONE
    /\ f.events = EventsOfPages(f.pages, f.calendar_id)

\* A fetch awaiting a page: every page so far carried a token, and a request
\* carrying the last token is the one in flight
PendingFetchFollowsTokens ==
    /\ Len(sent) = Len(pages) + 1
    /\ sent[1] = NONE
    /\ \A k \in 1..Len(pages) :
          /\ pages[k].status = 200
          /\ pages[k].next \in PageTokens
          /\ sent[k + 1] = pages[k].next
    /\ page_token = (IF pages = <<>> THEN NONE ELSE pages[Len(pages)].next)
    /\ events = EventsOfPages(pages, CALENDAR_IDS[cal_idx])

C2_FailedPageFailsRequest ==
    /\ (pages /= <<>> /\ pages[Len(pages)].status /= 200) =>
          /\ pc = "done"
          /\ response.status = 500
          /\ response.error = "calendar_error"
          /\ "events" \notin response.keys
          /\ response.events = <<>>
    /\ \A n \in 1..Len(fetched) : \A k \in 1..Len(fetched[n].pages) :
          fetched[n].pages[k].status = 200

C2_Witness ==
    /\ Len(pages) = 2
    /\ pages[2].status /= 200
    /\ events /= <<>>
    /\ Len(fetched) = 1
    /\ fetched[1].events /= <<>>
    /\ response.status = 500

\* C3: when the forecast fetch or the air-quality fetch fails, or a required
\* key is missing, the weather of the response is null as a whole (never a
\* partial snapshot), and the request succeeds with the event list of
\* get_all_events.
C3_WeatherAllOrNothing ==
    (pc = "done" /\ response.status = 200) =>
        /\ {"events", "weather"} \subseteq response.keys
        /\ response.events = all_events
        /\ response.event_count = Len(all_events)
        /\ response.weather.tag \in {"none", "weather"}
        /\ response.weather.tag = "weather" =>
              DOMAIN response.weather = {"tag", "current", "today", "hourly", "daily"}
        /\ (\/ weather_data = NoneVal
            \/ air_quality_data = NoneVal
            \/ ~(ForecastKeys \subseteq weather_data.keys)
            \/ ~(AirKeys \subseteq air_quality_data.keys))
           => response.weather = NoneVal

C3_Witness ==
    /\ pc = "done"
    /\ response.status = 200
    /\ weather_data /= NoneVal
    /\ ForecastKeys \subseteq weather_data.keys
    /\ air_quality_data = NoneVal
    /\ response.weather = NoneVal
    /\ response.events /= <<>>

\* C4: a record whose start cannot be parsed is skipped silently: when every
\* page request succeeded, no error reaches the caller.
C4_MalformedRecordSkipped ==
    (pages /= <<>> /\ \A k \in 1..Len(pages) : pages[k].status = 200)
        => response.status /= 500

NoCancelled(evs) == \A k \in 1..Len(evs) : evs[k].id \notin CancelledIds

\* C5: a cancelled record yields no Event whatever its start and end hold, so
\* no event of a fetch, of get_all_events or of the response comes from one.
C5_CancelledNeverAnEvent ==
    /\ \A r \in {CancelledOk, CancelledBad} :
          normalize_event(r, "primary") = NoneVal
    /\ NoCancelled(events)
    /\ NoCancelled(all_events)
    /\ NoCancelled(response.events)
    /\ \A n \in 1..Len(fetched) : NoCancelled(fetched[n].events)

C5_Witness ==
    /\ pc = "forecast"
    /\ all_events /= <<>>
    /\ \E n \in 1..Len(fetched) : \E k \in 1..Len(fetched[n].pages) :
          \E i \in 1..Len(fetched[n].pages[k].items) :
              fetched[n].pages[k].items[i].status = "cancelled"

Count(s, x) == Cardinality({k \in 1..Len(s) : s[k] = x})

\* C6: the list get_all_events returns holds the events of all calendars,
\* ordered by date string; on one date all-day events precede timed ones, and
\* timed ones are ordered by their start-time strings, compared as strings.
C6_SortedByDateAllDayFirst ==
    pc = "sorted" =>
        /\ Len(all_events) = Len(ExtendAll(fetched))
        /\ \A k \in 1..Len(all_events) :
              Count(all_events, all_events[k]) = Count(ExtendAll(fetched), all_events[k])
        /\ \A i \in 1..Len(all_events) : \A j \in (i + 1)..Len(all_events) :
              LET a == all_events[i]
                  b == all_events[j]
              IN /\ StrLeq(a.date, b.date)
                 /\ a.date = b.date => ~(b.all_day /\ ~a.all_day)
                 /\ (a.date = b.date /\ ~a.all_day /\ ~b.all_day)
                       => StrLeq(a.start_time, b.start_time)

C6_Witness ==
    /\ pc = "sorted"
    /\ [k \in 1..Len(all_events) |-> all_events[k].id] = <<"a1", "t10", "ts", "t9">>
    /\ [k \in 1..Len(fetched[1].events) |-> fetched[1].events[k].id] = <<"t9", "ts">>
    /\ Join(all_events[2].start_time) = "10 AM"
    /\ Join(all_events[3].start_time) = "3 AM"

\* The inputs are such that get_all_weather has every fetch and key it needs
WxWellFormed ==
    /\ wx_in.forecast.status = 200
    /\ wx_in.air.status = 200
    /\ ForecastKeys \subseteq wx_in.forecast.body.keys
    /\ AirKeys \subseteq wx_in.air.body.keys
    /\ Len(wx_in.forecast.body.daily.time) >= 1

\* C7: the hourly window starts at the first forecast hour at or after the
\* current time truncated to the hour, holds at most 24 entries taken from
\* consecutive forecast indices, and holds no hour before the truncation.
C7_HourlyWindow ==
    wx_out.tag = "weather" =>
        LET h == wx_out.hourly
            times == wx_in.forecast.body.hourly.time
            cur == wx_in.now \div 60
        IN /\ Len(h) <= 24
           /\ \A k \in 1..Len(h) :
                 /\ h[k].idx + 1 \in 1..Len(times)
                 /\ times[h[k].idx + 1] >= cur
                 /\ h[k].hour = format_hour(times[h[k].idx + 1])
           /\ \A k \in 1..(Len(h) - 1) : h[k + 1].idx = h[k].idx + 1
           /\ (\E i \in 1..Len(times) : times[i] >= cur) => Len(h) >= 1
           /\ Len(h) >= 1 => \A i \in 1..h[1].idx : times[i] < cur

C7_Witness ==
    /\ wx_out.tag = "weather"
    /\ Len(wx_in.forecast.body.hourly.time) = 26
    /\ wx_in.now % 60 = 59
    /\ Len(wx_out.hourly) = 24
    /\ wx_out.hourly[1].idx = 1
    /\ wx_in.forecast.body.hourly.time[2] = wx_in.now \div 60

\* C8: an hour of the window whose index the air-quality series does not
\* reach is emitted with uv and aqi null, and the snapshot is still built.
C8_ShortAirQualityGivesNull ==
    (wx_out /= Pending /\ WxWellFormed) =>
        /\ wx_out.tag = "weather"
        /\ \A k \in 1..Len(wx_out.hourly) :
              wx_out.hourly[k].idx >= Len(wx_in.air.body.hourly.time)
                 => wx_out.hourly[k].uv = Null /\ wx_out.hourly[k].aqi = Null

C8_Witness ==
    /\ wx_out.tag = "weather"
    /\ Len(wx_in.air.body.hourly.time) = 2
    /\ Len(wx_out.hourly) = 3
    /\ wx_out.hourly[1].idx = 1
    /\ wx_out.hourly[1].uv /= Null
    /\ wx_out.hourly[2].uv = Null
    /\ wx_out.hourly[2].aqi = Null

\* The record is an all-day event with well-formed start and end dates
FmtAllDayPair ==
    /\ fmt_in.start.date.present /\ fmt_in.start.date.wf
    /\ fmt_in.end.date.present /\ fmt_in.end.date.wf

\* C9: an all-day event whose exclusive end date is the day after its start
\* date has date_formatted equal to the formatted start date (weekday, month,
\* day), with no range separator.
C9_SingleDayAllDay ==
    (fmt_out.tag = "event" /\ FmtAllDayPair
        /\ Ordinal(fmt_in.end.date) = Ordinal(fmt_in.start.date) + 1) =>
        /\ fmt_out.ev.date_formatted = FormatDate(Strptime(fmt_in.start.date))
        /\ ~Contains(fmt_out.ev.date_formatted, "-")
        /\ fmt_in.start.date = DateStr(2024, 3, 18)
              => Join(fmt_out.ev.date_formatted) = "Mon Mar 18"

C9_Witness ==
    /\ fmt_out.tag = "event"
    /\ fmt_in.start.date = DateStr(2024, 2, 29)
    /\ fmt_in.end.date = DateStr(2024, 3, 1)
    /\ fmt_out.ev.all_day
    /\ Join(fmt_out.ev.date_formatted) = "Thu Feb 29"

\* C10: a multi-day all-day event has date_formatted equal to the formatted
\* start date, "-", and the last actual day (exclusive end minus one day):
\* the day number alone when the last day is in the month of the start, the
\* abbreviated month and the day number when it is in a different month.
C10_MultiDayAllDayRange ==
    (fmt_out.tag = "event" /\ FmtAllDayPair
        /\ Ordinal(fmt_in.end.date) > Ordinal(fmt_in.start.date) + 1) =>
        LET start == Strptime(fmt_in.start.date)
            last == MinusOneDay(Strptime(fmt_in.end.date))
        IN fmt_out.ev.date_formatted =
              FormatDate(start) \o <<"-">>
              \o (IF last.y = start.y /\ last.m = start.m
                  THEN Digits(last.d) ELSE FormatMonthDay(last))

\* The record is a timed event with well-formed start and end instants
FmtTimedPair ==
    /\ ~fmt_in.start.date.present /\ ~fmt_in.end.date.present
    /\ fmt_in.start.dateTime.present /\ fmt_in.start.dateTime.wf
    /\ fmt_in.end.dateTime.present /\ fmt_in.end.dateTime.wf

\* C11: a timed event whose start and end are on different dates of the
\* display timezone has date_formatted "<start date> <start time>-<end month>
\* <end day> <end time>", the end taken as it is (no day subtracted), in the
\* same month or not; one whose start and end are on the same date has the
\* formatted start date alone.  10 PM Mar 30 to 10 AM Mar 31 (2024) gives
\* "Sat Mar 30 10 PM-Mar 31 10 AM".
C11_TimedMultiDayRange ==
    (fmt_out.tag = "event" /\ FmtTimedPair) =>
        LET start == FromIsoAsTimezone(fmt_in.start.dateTime)
            end == FromIsoAsTimezone(fmt_in.end.dateTime)
            text == fmt_out.ev.date_formatted
        IN /\ DateOf(start) /= DateOf(end) =>
                 text = FormatDate(start) \o <<" ">> \o format_time(start)
                        \o <<"-">> \o FormatMonthDay(end) \o <<" ">>
                        \o format_time(end)
           /\ DateOf(start) = DateOf(end) => text = FormatDate(start)
           /\ (fmt_in.start.dateTime = DateTimeStr(2024, 3, 30, 22, 0, 0)
                 /\ fmt_in.end.dateTime = DateTimeStr(2024, 3, 31, 10, 0, 0))
                 => Join(text) = "Sat Mar 30 10 PM-Mar 31 10 AM"
           /\ (fmt_in.start.dateTime = DateTimeStr(2024, 2, 29, 22, 30, 0)
                 /\ fmt_in.end.dateTime = DateTimeStr(2024, 3, 1, 10, 30, 0))
                 => Join(text) = "Thu Feb 29 10:30 PM-Mar 1 10:30 AM"
           /\ (fmt_in.start.dateTime = DateTimeStr(2024, 3, 30, 9, 0, 0)
                 /\ fmt_in.end.dateTime = DateTimeStr(2024, 3, 30, 10, 0, 0))
                 => Join(text) = "Sat Mar 30"

C11_Witness ==
    /\ fmt_out.tag = "event"
    /\ ~fmt_out.ev.all_day
    /\ fmt_in.start.dateTime = DateTimeStr(2024, 3, 30, 22, 0, 0)
    /\ fmt_in.end.dateTime = DateTimeStr(2024, 3, 31, 10, 0, 0)
    /\ Join(fmt_out.ev.date_formatted) = "Sat Mar 30 10 PM-Mar 31 10 AM"

\* C12: _format_time renders a 12-hour clock time: the hour 1..12 without a
\* leading zero, then nothing but " AM"/" PM" when the minute is 0, and
\* ":" with the minute as two digits before " AM"/" PM" when it is not.
C12_FormatTime ==
    fmt_out.tag = "time" =>
        LET hh == fmt_in.hh
            mi == fmt_in.mi
            text == fmt_out.text
            h12 == IF hh % 12 = 0 THEN 12 ELSE hh % 12
            n == IF h12 >= 10 THEN 2 ELSE 1
        IN /\ text[1] /= "0"
           /\ IF n = 2 THEN text[1] = "1" /\ text[2] = DigitChar(h12 - 10)
                       ELSE text[1] = DigitChar(h12)
           /\ SubSeq(text, Len(text) - 2, Len(text)) =
                 <<" ", IF hh < 12 THEN "A" ELSE "P", "M">>
           /\ mi = 0 => Len(text) = n + 3 /\ ~Contains(text, ":")
           /\ mi /= 0 => /\ Len(text) = n + 6
                         /\ text[n + 1] = ":"
                         /\ text[n + 2] = DigitChar(mi \div 10)
                         /\ text[n + 3] = DigitChar(mi % 10)
           /\ (hh = 12 /\ mi = 0) => Join(text) = "12 PM"
           /\ (hh = 8 /\ mi = 0) => Join(text) = "8 AM"
           /\ (hh = 0 /\ mi = 0) => Join(text) = "12 AM"
           /\ (hh = 22 /\ mi = 30) => Join(text) = "10:30 PM"
           /\ (hh = 20 /\ mi = 45) => Join(text) = "8:45 PM"

C12_Witness ==
    /\ fmt_out.tag = "time"
    /\ fmt_in.hh = 0
    /\ fmt_in.mi = 5
    /\ Join(fmt_out.text) = "12:05 AM"

\* C13: in a weather snapshot today.max_uv (today.max_aqi) is the largest
\* non-null uv (aqi) among the entries of the snapshot's hourly window, and is
\* null exactly when no entry of the window has a non-null value; values of
\* the upstream air-quality series outside the window do not count.
C13_MaxOverWindow ==
    wx_out.tag = "weather" =>
        LET h == wx_out.hourly
            uvs == {h[k].uv : k \in 1..Len(h)} \ {Null}
            aqis == {h[k].aqi : k \in 1..Len(h)} \ {Null}
            max_uv == wx_out.today.max_uv
            max_aqi == wx_out.today.max_aqi
        IN /\ (max_uv = Null) <=> (uvs = {})
           /\ uvs /= {} => max_uv \in uvs /\ \A v \in uvs : v <= max_uv
           /\ (max_aqi = Null) <=> (aqis = {})
           /\ aqis /= {} => max_aqi \in aqis /\ \A v \in aqis : v <= max_aqi

\* A window that starts after the peaks of the upstream series and holds
\* nulls: the maxima are those of the window, below the upstream peaks.
C13_Witness ==
    /\ wx_out.tag = "weather"
    /\ Len(wx_in.air.body.hourly.time) > 12
    /\ wx_in.air.body.hourly.us_aqi[1] = 1500
    /\ wx_in.air.body.hourly.uv_index[2] = 900
    /\ Len(wx_out.hourly) >= 4
    /\ wx_out.hourly[1].idx = 4
    /\ wx_out.hourly[1].uv = Null
    /\ wx_out.today.max_uv /= Null
    /\ wx_out.today.max_uv < RoundHundredths(900)
    /\ wx_out.today.max_aqi /= Null
    /\ wx_out.today.max_aqi < RoundTenths(1500)

\* C14: in a weather snapshot the daily list is the upstream daily series at
\* the program's indices 1..7 in order: entry k comes from index k, never
\* from index 0 (today); for an upstream series of n >= 1 days it has
\* min(7, n - 1) entries, and its first entry is the day after today.
C14_DailyFromTomorrow ==
    wx_out.tag = "weather" =>
        LET days == wx_in.forecast.body.daily
            n == Len(days.time)
            d == wx_out.daily
        IN /\ n >= 1
           /\ Len(d) = (IF n - 1 < 7 THEN n - 1 ELSE 7)
           /\ \A k \in 1..Len(d) :
                 /\ d[k].idx = k
                 /\ d[k].date = FormatDate(days.time[k + 1])
                 /\ d[k].high = RoundTenths(days.temperature_2m_max[k + 1])
                 /\ d[k].low = RoundTenths(days.temperature_2m_min[k + 1])
           /\ Len(d) >= 1 =>
                 /\ d[1].date = FormatDate(PlusOneDay(days.time[1]))
                 /\ Join(d[1].date) = "Sun Mar 31"

\* A nine-day upstream series: seven entries, the last from index 7
C14_Witness ==
    /\ wx_out.tag = "weather"
    /\ Len(wx_in.forecast.body.daily.time) = 9
    /\ Len(wx_out.daily) = 7
    /\ wx_out.daily[1].idx = 1
    /\ wx_out.daily[7].idx = 7
    /\ Join(wx_out.daily[7].date) = "Sat Apr 6"

\* The request cannot authenticate: no usable refresh credential is stored,
\* or the token endpoint rejected the refresh
CannotAuthenticate ==
    \/ ~Truthy(token_store)
    \/ token_log /= <<>> /\ token_log[1] \notin {0, 200}

\* No calendar page and no weather response has been requested or received
NoFetchIssued ==
    /\ sent = <<>> /\ pages = <<>> /\ fetched = <<>>
    /\ weather_data = NoneVal /\ air_quality_data = NoneVal

\* C15: a request that finds no refresh credential stored, or whose token
\* refresh is rejected, ends with a 401 response without events; the token
\* endpoint is contacted at most once in a request, no calendar or weather
\* fetch is issued in such a request, and no step of a request changes the
\* stored refresh credential.
C15_UnauthenticatedNoFetch ==
    /\ [](/\ Len(token_log) <= 1
          /\ (pc = "done" /\ CannotAuthenticate) =>
                /\ response.status = 401
                /\ "events" \notin response.keys
                /\ NoFetchIssued
          /\ (pc /= "done" /\ CannotAuthenticate) => pc = "idle")
    /\ [][token_store' = token_store]_vars

\* A stored credential whose refresh the token endpoint rejected
C15_Witness ==
    /\ pc = "done"
    /\ token_store = "rt"
    /\ token_log = <<400>>
    /\ response.status = 401
    /\ response.error = "token_expired"

\* The callback passed validation against a pending state token equal to its
\* state parameter
ValidatedAgainstPending(cb) == cb.slot /= NONE /\ cb.state = cb.slot

\* C16: the pending OAuth state is one slot with a generate/validate/clear
\* lifecycle.  A callback reaches the code exchange (and so can store a
\* credential) only when a state token generated by /setup is pending and the
\* callback's state parameter equals it; a callback without a state parameter,
\* or arriving when nothing is pending, is rejected; a pending token is one
\* that /setup generated; and the slot is cleared only by a successful
\* exchange.
C16_StateSlotLifecycle ==
    /\ [](/\ \A i \in 1..Len(inflight) : ValidatedAgainstPending(inflight[i])
          /\ (last_cb /= NoneVal /\ last_cb.result \in {"success", "exchange_failed"})
                => ValidatedAgainstPending(last_cb)
          /\ (last_cb /= NoneVal /\ (last_cb.state = NONE \/ last_cb.slot = NONE))
                => last_cb.result \in {"error", "no_code", "invalid_state"}
          /\ oauth_state /= NONE
                => \E n \in 1..issued : oauth_state = StateToken(n))
    /\ [][(oauth_state /= NONE /\ oauth_state' = NONE)
            => (last_cb'.result = "success" /\ Len(inflight') < Len(inflight))]_vars

=============================================================================
